---- MODULE Spec2Model ----
(***************************************************************************)
(* Model of util/grpc/errors.go: the gRPC error-normalisation interceptors *)
(* of argo-cd.                                                             *)
(*                                                                         *)
(* An error value is a chain of links, outermost first; the empty chain    *)
(* <<>> is the nil error.  A link is a record                              *)
(*   kind   "plain"  - errors.New / fmt.Errorf("ctx: %w", cause)           *)
(*          "grpc"   - *status.Error, built by status.Error(code, msg)    *)
(*          "custom" - any other type with a GRPCStatus() method           *)
(*          "api"    - *apierrors.StatusError (exposes APIStatus)          *)
(*          "uoe"    - *apierrors.UnexpectedObjectError                    *)
(*   text   the link's own contribution to Error(), a sequence of tokens   *)
(*   st     what GRPCStatus() returns (present = FALSE: a nil *Status)     *)
(*   reason, http, unexp   the metav1.Status of an "api" link              *)
(*   addr   the identity of the value: 0 for the handler's values, the     *)
(*          allocation number for values built by status.Error            *)
(* The cause of link i (errors.Unwrap) is link i+1; the last link has no   *)
(* cause.  Message texts are sequences of tokens so that wrapping and      *)
(* formatting concatenate.                                                 *)
(***************************************************************************)
EXTENDS Integers, Sequences, FiniteSets, TLC

VARIABLES err, pc, icpt, ret, ret2, heap, cur, unwrapped, calls, wire

vars == <<err, pc, icpt, ret, ret2, heap, cur, unwrapped, calls, wire>>

\* the state of one classification of a handler error
classVars == <<err, pc, icpt, ret, ret2, heap>>

\* the state of one traversal by UnwrapGRPCStatus: the link it looks at and
\* the status it returned
unwrapVars == <<cur, unwrapped>>

\* concurrent calls through the interceptors: the record of each call and
\* the messages on each server stream
callVars == <<calls, wire>>

\* Number of concurrent calls.
NCalls == 2

\* Largest number of messages a stream handler sends.
MaxMsgs == 2

\* Largest number of wrappers around the innermost link of a handler error.
MaxWrap == 2

----------------------------------------------------------------------------
\* google.golang.org/grpc/codes
Codes ==
    {"OK", "Canceled", "Unknown", "InvalidArgument", "DeadlineExceeded",
     "NotFound", "AlreadyExists", "PermissionDenied", "ResourceExhausted",
     "FailedPrecondition", "Aborted", "OutOfRange", "Unimplemented",
     "Internal", "Unavailable", "DataLoss", "Unauthenticated"}

\* giterr.ErrRepositoryNotFound.Error()
ErrRepositoryNotFound == <<"repository not found">>

\* a nil *status.Status
NilStatus == [present |-> FALSE, code |-> "OK", msg |-> <<>>]

\* status.New(code, msg)
Status(code, msg) == [present |-> TRUE, code |-> code, msg |-> msg]

\* metav1.StatusReasonUnknown
StatusReasonUnknown == ""

\* no link of the chain exposes APIStatus
NoAPI == [reason |-> StatusReasonUnknown, http |-> 0, unexp |-> FALSE]

Link(kind, text, st, api, addr) ==
    [kind |-> kind, text |-> text, st |-> st,
     reason |-> api.reason, http |-> api.http, unexp |-> api.unexp,
     addr |-> addr]

\* (*status.Error).Error(): "rpc error: code = %s desc = %s"
StatusErrorText(st) == <<"rpc error: code = ", st.code, " desc = ">> \o st.msg

\* err.Error(): a link with a cause prefixes its own text to the cause's
\* message; a *status.Error formats its status.
RECURSIVE ErrorText(_)
ErrorText(e) ==
    IF e = <<>> THEN <<>>
    ELSE IF Head(e).kind = "grpc" THEN StatusErrorText(Head(e).st)
    ELSE Head(e).text \o ErrorText(Tail(e))

\* status.Error(code, msg): nil for codes.OK, else a new *status.Error.
statusError(code, msg, addr) ==
    IF code = "OK" THEN <<>>
    ELSE << Link("grpc", <<>>, Status(code, msg), NoAPI, addr) >>

\* the type assertion err.(interface{ GRPCStatus() *status.Status })
HasGRPCStatus(l) == l.kind \in {"grpc", "custom"}

\* rewrapError taking the message of the innermost cause only, dropping the
\* text the wrappers added
rewrapError_InnerText(e, code, addr) ==
    statusError(code, ErrorText(<<e[Len(e)]>>), addr)

\* rewrapError building an Unknown status error whatever code it is given
rewrapError_Unknown(e, code, addr) == statusError("Unknown", ErrorText(e), addr)

\* func rewrapError(err error, code codes.Code) error
rewrapError(e, code, addr) == statusError(code, ErrorText(e), addr)

\* UnwrapGRPCStatus looking at the error and at its direct cause only
UnwrapGRPCStatus_OneLevel(e) ==
    IF e # <<>> /\ HasGRPCStatus(Head(e)) THEN Head(e).st
    ELSE IF Len(e) >= 2 /\ HasGRPCStatus(e[2]) THEN e[2].st
    ELSE NilStatus

\* UnwrapGRPCStatus going on to the cause when GRPCStatus() yields nil
RECURSIVE UnwrapGRPCStatus_SkipNil(_)
UnwrapGRPCStatus_SkipNil(e) ==
    IF e # <<>> /\ HasGRPCStatus(Head(e)) /\ Head(e).st.present
    THEN Head(e).st
    ELSE IF e = <<>> \/ Tail(e) = <<>> THEN NilStatus
    ELSE UnwrapGRPCStatus_SkipNil(Tail(e))

\* func UnwrapGRPCStatus(err error) *status.Status
\* The type assertion on a nil error fails and errors.Unwrap(nil) is nil.
RECURSIVE UnwrapGRPCStatus(_)
UnwrapGRPCStatus(e) ==
    IF e # <<>> /\ HasGRPCStatus(Head(e)) THEN Head(e).st
    ELSE IF e = <<>> \/ Tail(e) = <<>> THEN NilStatus
    ELSE UnwrapGRPCStatus(Tail(e))

\* gitErrToGRPC comparing the error's own message text only
gitErrToGRPC_OwnText(e, addr) ==
    IF e = <<>> THEN <<>>
    ELSE IF ErrorText(e) = ErrRepositoryNotFound
         THEN statusError("NotFound", ErrorText(e), addr)
         ELSE e

\* gitErrToGRPC matching any message that contains the canonical text
gitErrToGRPC_Contains(e, addr) ==
    IF e = <<>> THEN <<>>
    ELSE LET grpcStatus == UnwrapGRPCStatus(e)
             errMsg == IF grpcStatus.present THEN grpcStatus.msg
                       ELSE ErrorText(e)
         IN  IF \E i \in DOMAIN errMsg : <<errMsg[i]>> = ErrRepositoryNotFound
             THEN statusError("NotFound", ErrRepositoryNotFound, addr)
             ELSE e

\* gitErrToGRPC keeping the code of the embedded status when it recognises
\* the message
gitErrToGRPC_KeepCode(e, addr) ==
    IF e = <<>> THEN <<>>
    ELSE LET grpcStatus == UnwrapGRPCStatus(e)
             errMsg == IF grpcStatus.present THEN grpcStatus.msg
                       ELSE ErrorText(e)
         IN  IF errMsg = ErrRepositoryNotFound
             THEN IF grpcStatus.present /\ grpcStatus.code # "OK"
                  THEN statusError(grpcStatus.code, errMsg, addr)
                  ELSE statusError("NotFound", errMsg, addr)
             ELSE e

\* func gitErrToGRPC(err error) error
gitErrToGRPC(e, addr) ==
    IF e = <<>> THEN <<>>
    ELSE LET grpcStatus == UnwrapGRPCStatus(e)
             errMsg == IF grpcStatus.present THEN grpcStatus.msg
                       ELSE ErrorText(e)
         IN  IF errMsg = ErrRepositoryNotFound
             THEN statusError("NotFound", errMsg, addr)
             ELSE e

----------------------------------------------------------------------------
(***************************************************************************)
(* The predicates of k8s.io/apimachinery/pkg/api/errors that kubeErrToGRPC *)
(* calls.  They read the metav1.Status of the first link of the chain that *)
(* exposes APIStatus (errors.As); without one the reason is unknown and    *)
(* the HTTP code is 0.                                                     *)
(***************************************************************************)
\* the reasons apimachinery lists as known; an HTTP code is consulted only
\* when the reason is not one of them
KnownReasons ==
    {"Unauthorized", "Forbidden", "NotFound", "AlreadyExists", "Conflict",
     "Gone", "Invalid", "ServerTimeout", "Timeout", "TooManyRequests",
     "BadRequest", "MethodNotAllowed", "NotAcceptable", "InternalError",
     "Expired", "ServiceUnavailable"}

RECURSIVE APIStatusOf(_)
APIStatusOf(e) ==
    IF e = <<>> THEN NoAPI
    ELSE IF Head(e).kind = "api"
         THEN [reason |-> Head(e).reason, http |-> Head(e).http,
               unexp |-> Head(e).unexp]
    ELSE APIStatusOf(Tail(e))

ReasonOrCode(e, reason, http) ==
    LET s == APIStatusOf(e)
    IN  \/ s.reason = reason
        \/ s.reason \notin KnownReasons /\ s.http = http

IsNotFound(e) == ReasonOrCode(e, "NotFound", 404)
IsAlreadyExists(e) == APIStatusOf(e).reason = "AlreadyExists"
IsInvalid(e) == ReasonOrCode(e, "Invalid", 422)
IsMethodNotSupported(e) == ReasonOrCode(e, "MethodNotAllowed", 405)
IsServiceUnavailable(e) == ReasonOrCode(e, "ServiceUnavailable", 503)
IsBadRequest(e) == ReasonOrCode(e, "BadRequest", 400)
IsUnauthorized(e) == ReasonOrCode(e, "Unauthorized", 401)
IsForbidden(e) == ReasonOrCode(e, "Forbidden", 403)
IsTimeout(e) == ReasonOrCode(e, "Timeout", 504)
IsServerTimeout(e) == APIStatusOf(e).reason = "ServerTimeout"
IsConflict(e) == ReasonOrCode(e, "Conflict", 409)
\* the HTTP code is checked whatever the reason is
IsTooManyRequests(e) ==
    LET s == APIStatusOf(e)
    IN  s.reason = "TooManyRequests" \/ s.http = 429
IsInternalError(e) == ReasonOrCode(e, "InternalError", 500)

\* The predicates the comment of kubeErrToGRPC lists as unmapped: the switch
\* does not call them.
IsGone(e) == ReasonOrCode(e, "Gone", 410)
IsResourceExpired(e) == APIStatusOf(e).reason = "Expired"
\* the status details name an unexpected server response as a cause
IsUnexpectedServerError(e) == APIStatusOf(e).unexp
\* some link of the chain is an *UnexpectedObjectError
IsUnexpectedObjectError(e) == \E i \in DOMAIN e : e[i].kind = "uoe"

\* the switch with a case added that maps gone to NotFound
KubeRuleCode_Gone(e) ==
    IF IsNotFound(e) THEN "NotFound"
    ELSE IF IsAlreadyExists(e) THEN "AlreadyExists"
    ELSE IF IsInvalid(e) THEN "InvalidArgument"
    ELSE IF IsMethodNotSupported(e) THEN "Unimplemented"
    ELSE IF IsServiceUnavailable(e) THEN "Unavailable"
    ELSE IF IsBadRequest(e) THEN "FailedPrecondition"
    ELSE IF IsUnauthorized(e) THEN "Unauthenticated"
    ELSE IF IsForbidden(e) THEN "PermissionDenied"
    ELSE IF IsTimeout(e) THEN "DeadlineExceeded"
    ELSE IF IsServerTimeout(e) THEN "Unavailable"
    ELSE IF IsConflict(e) THEN "Aborted"
    ELSE IF IsTooManyRequests(e) THEN "ResourceExhausted"
    ELSE IF IsInternalError(e) THEN "Internal"
    ELSE IF IsGone(e) THEN "NotFound"
    ELSE ""

\* the switch with bad-request mapped to InvalidArgument
KubeRuleCode_BadRequest(e) ==
    IF IsNotFound(e) THEN "NotFound"
    ELSE IF IsAlreadyExists(e) THEN "AlreadyExists"
    ELSE IF IsInvalid(e) THEN "InvalidArgument"
    ELSE IF IsMethodNotSupported(e) THEN "Unimplemented"
    ELSE IF IsServiceUnavailable(e) THEN "Unavailable"
    ELSE IF IsBadRequest(e) THEN "InvalidArgument"
    ELSE IF IsUnauthorized(e) THEN "Unauthenticated"
    ELSE IF IsForbidden(e) THEN "PermissionDenied"
    ELSE IF IsTimeout(e) THEN "DeadlineExceeded"
    ELSE IF IsServerTimeout(e) THEN "Unavailable"
    ELSE IF IsConflict(e) THEN "Aborted"
    ELSE IF IsTooManyRequests(e) THEN "ResourceExhausted"
    ELSE IF IsInternalError(e) THEN "Internal"
    ELSE ""

\* the switch with the too-many-requests case moved to the top
KubeRuleCode_Reordered(e) ==
    IF IsTooManyRequests(e) THEN "ResourceExhausted"
    ELSE IF IsNotFound(e) THEN "NotFound"
    ELSE IF IsAlreadyExists(e) THEN "AlreadyExists"
    ELSE IF IsInvalid(e) THEN "InvalidArgument"
    ELSE IF IsMethodNotSupported(e) THEN "Unimplemented"
    ELSE IF IsServiceUnavailable(e) THEN "Unavailable"
    ELSE IF IsBadRequest(e) THEN "FailedPrecondition"
    ELSE IF IsUnauthorized(e) THEN "Unauthenticated"
    ELSE IF IsForbidden(e) THEN "PermissionDenied"
    ELSE IF IsTimeout(e) THEN "DeadlineExceeded"
    ELSE IF IsServerTimeout(e) THEN "Unavailable"
    ELSE IF IsConflict(e) THEN "Aborted"
    ELSE IF IsInternalError(e) THEN "Internal"
    ELSE ""

\* the switch with internal-error mapped to Unknown
KubeRuleCode_Unknown(e) ==
    IF IsNotFound(e) THEN "NotFound"
    ELSE IF IsAlreadyExists(e) THEN "AlreadyExists"
    ELSE IF IsInvalid(e) THEN "InvalidArgument"
    ELSE IF IsMethodNotSupported(e) THEN "Unimplemented"
    ELSE IF IsServiceUnavailable(e) THEN "Unavailable"
    ELSE IF IsBadRequest(e) THEN "FailedPrecondition"
    ELSE IF IsUnauthorized(e) THEN "Unauthenticated"
    ELSE IF IsForbidden(e) THEN "PermissionDenied"
    ELSE IF IsTimeout(e) THEN "DeadlineExceeded"
    ELSE IF IsServerTimeout(e) THEN "Unavailable"
    ELSE IF IsConflict(e) THEN "Aborted"
    ELSE IF IsTooManyRequests(e) THEN "ResourceExhausted"
    ELSE IF IsInternalError(e) THEN "Unknown"
    ELSE ""

\* the switch of kubeErrToGRPC: the code of the first case that matches,
\* "" when the default branch is taken
KubeRuleCode(e) ==
    IF IsNotFound(e) THEN "NotFound"
    ELSE IF IsAlreadyExists(e) THEN "AlreadyExists"
    ELSE IF IsInvalid(e) THEN "InvalidArgument"
    ELSE IF IsMethodNotSupported(e) THEN "Unimplemented"
    ELSE IF IsServiceUnavailable(e) THEN "Unavailable"
    ELSE IF IsBadRequest(e) THEN "FailedPrecondition"
    ELSE IF IsUnauthorized(e) THEN "Unauthenticated"
    ELSE IF IsForbidden(e) THEN "PermissionDenied"
    ELSE IF IsTimeout(e) THEN "DeadlineExceeded"
    ELSE IF IsServerTimeout(e) THEN "Unavailable"
    ELSE IF IsConflict(e) THEN "Aborted"
    ELSE IF IsTooManyRequests(e) THEN "ResourceExhausted"
    ELSE IF IsInternalError(e) THEN "Internal"
    ELSE ""

\* kubeErrToGRPC looking for an embedded status before the switch
kubeErrToGRPC_StatusFirst(e, addr) ==
    LET grpcStatus == UnwrapGRPCStatus(e)
    IN  IF grpcStatus.present
        THEN statusError(grpcStatus.code, grpcStatus.msg, addr)
        ELSE IF KubeRuleCode(e) # ""
        THEN rewrapError(e, KubeRuleCode(e), addr)
        ELSE e

\* kubeErrToGRPC whose default branch turns every error without a status
\* into an Unknown status error
kubeErrToGRPC_WrapUnknown(e, addr) ==
    IF KubeRuleCode(e) # ""
    THEN rewrapError(e, KubeRuleCode(e), addr)
    ELSE LET grpcStatus == UnwrapGRPCStatus(e)
         IN  IF grpcStatus.present
             THEN statusError(grpcStatus.code, grpcStatus.msg, addr)
             ELSE statusError("Unknown", ErrorText(e), addr)

\* kubeErrToGRPC whose default branch re-emits the status with err.Error()
\* as the message
kubeErrToGRPC_ErrorText(e, addr) ==
    IF KubeRuleCode(e) # ""
    THEN rewrapError(e, KubeRuleCode(e), addr)
    ELSE LET grpcStatus == UnwrapGRPCStatus(e)
         IN  IF grpcStatus.present
             THEN statusError(grpcStatus.code, ErrorText(e), addr)
             ELSE e

\* func kubeErrToGRPC(err error) error
kubeErrToGRPC(e, addr) ==
    IF KubeRuleCode(e) # ""
    THEN rewrapError(e, KubeRuleCode(e), addr)
    ELSE LET grpcStatus == UnwrapGRPCStatus(e)
         IN  IF grpcStatus.present
             THEN statusError(grpcStatus.code, grpcStatus.msg, addr)
             ELSE e

----------------------------------------------------------------------------
(***************************************************************************)
(* The errors a wrapped handler may return.                                *)
(***************************************************************************)
Boom == <<"boom">>
Ctx == <<"ctx: ">>

StatusMsgs == {ErrRepositoryNotFound, Boom}

\* HTTP codes of a metav1.Status (0: not set)
HTTPCodes == {0, 400, 401, 403, 404, 405, 409, 410, 422, 429, 500, 503, 504}

APIStatuses ==
    {[reason |-> r, http |-> h, unexp |-> FALSE] :
        r \in KnownReasons, h \in {0, 429}}
    \cup {[reason |-> StatusReasonUnknown, http |-> h, unexp |-> FALSE] :
        h \in HTTPCodes}
    \cup {[reason |-> "InternalError", http |-> 500, unexp |-> TRUE],
          [reason |-> StatusReasonUnknown, http |-> 0, unexp |-> TRUE],
          [reason |-> StatusReasonUnknown, http |-> 429, unexp |-> TRUE]}

\* innermost links: links with no cause
Leaves ==
    {Link("plain", t, NilStatus, NoAPI, 0) : t \in {ErrRepositoryNotFound, Boom}}
    \cup {Link("grpc", <<>>, Status(c, m), NoAPI, 0) :
            c \in Codes \ {"OK"}, m \in StatusMsgs}
    \cup {Link("custom", t, st, NoAPI, 0) :
            t \in {ErrRepositoryNotFound, Boom},
            st \in {NilStatus, Status("OK", Boom),
                    Status("OK", ErrRepositoryNotFound)}}
    \cup {Link("api", Boom, NilStatus, a, 0) : a \in APIStatuses}
    \cup {Link("uoe", Boom, NilStatus, NoAPI, 0)}

\* links with a cause: context annotations, and wrappers of a type that has
\* a GRPCStatus() method of its own
Wrappers ==
    {Link("plain", Ctx, NilStatus, NoAPI, 0)}
    \cup {Link("custom", Ctx, st, NoAPI, 0) :
            st \in {NilStatus, Status("OK", Boom),
                    Status("Unknown", ErrRepositoryNotFound),
                    Status("Internal", Boom)}}

RECURSIVE Wrapped(_)
Wrapped(n) ==
    IF n = 0 THEN {<<l>> : l \in Leaves}
    ELSE {<<w>> \o c : w \in Wrappers, c \in Wrapped(n - 1)}

HandlerErrors == {<<>>} \cup UNION {Wrapped(n) : n \in 0..MaxWrap}

----------------------------------------------------------------------------
(***************************************************************************)
(* Concurrent calls.  The RPC framework runs every call on a goroutine of  *)
(* its own; a call passes from the interceptor's invocation of the handler *)
(* through the handler's return to the interceptor's return.               *)
(***************************************************************************)
CallIds == 1..NCalls

\* the stream of call c is stream c; stream 0 belongs to no call
StreamIds == 0..NCalls

Kinds == {"GitUnary", "GitStream", "K8sUnary", "K8sStream"}

IsUnary(k) == k \in {"GitUnary", "K8sUnary"}

\* the arguments the framework gives the interceptor of call c: (ctx, req)
\* of a unary call, (srv, ss) of a streaming call
InterceptorArgs(c, k) ==
    IF IsUnary(k) THEN <<"ctx", c, "req", c>> ELSE <<"srv", c, "ss", c>>

\* an interceptor that hands the handler a stream other than the call's
HandlerArgs_OtherStream(args) ==
    IF args[3] = "ss" THEN <<args[1], args[2], "ss", 0>> ELSE args

\* handler(ctx, req), handler(srv, ss): the interceptor hands its own
\* arguments to the handler
HandlerArgs(args) == args

\* the errors the handlers of concurrent calls return
CallErrors ==
    { <<>>,
      << Link("api", Boom, NilStatus,
              [reason |-> "Forbidden", http |-> 403, unexp |-> FALSE], 0) >>,
      << Link("plain", Ctx, NilStatus, NoAPI, 0),
         Link("grpc", <<>>, Status("Unknown", ErrRepositoryNotFound),
              NoAPI, 0) >> }

IdleCall ==
    [pc |-> "idle", kind |-> "none", hargs |-> <<>>, invoked |-> 0,
     nsent |-> 0, hErr |-> <<>>, hResp |-> "nil", classified |-> 0,
     retErr |-> <<>>, retResp |-> "nil"]

\* the classifier each interceptor applies
Classifier(k, e, addr) ==
    IF k \in {"GitUnary", "GitStream"} THEN gitErrToGRPC(e, addr)
    ELSE kubeErrToGRPC(e, addr)

----------------------------------------------------------------------------
Init ==
    /\ err \in HandlerErrors
    /\ pc = "handler"
    /\ icpt = "none"
    /\ ret = <<>>
    /\ ret2 = <<>>
    /\ heap = 1
    /\ cur = <<>>
    /\ unwrapped = NilStatus
    /\ calls = [c \in CallIds |-> IdleCall]
    /\ wire = [i \in StreamIds |-> <<>>]

\* a classifier whose assignment to err writes the value the handler holds
Intercept_WritesInput(name, result) ==
    /\ pc = "handler"
    /\ icpt' = name
    /\ ret' = result
    /\ err' = result
    /\ heap' = heap + 1
    /\ pc' = "returned"
    /\ UNCHANGED ret2
    /\ UNCHANGED unwrapVars
    /\ UNCHANGED callVars

\* One call through an interceptor: the handler has returned err, the
\* interceptor returns the classifier's result.
Intercept(name, result) ==
    /\ pc = "handler"
    /\ icpt' = name
    /\ ret' = result
    /\ heap' = heap + 1
    /\ pc' = "returned"
    /\ UNCHANGED <<err, ret2>>
    /\ UNCHANGED unwrapVars
    /\ UNCHANGED callVars

\* the git unary interceptor calling the control-plane classifier
ErrorCodeGitUnaryServerInterceptor_Kube ==
    Intercept("GitUnary", kubeErrToGRPC(err, heap))

\* func ErrorCodeGitUnaryServerInterceptor() grpc.UnaryServerInterceptor
ErrorCodeGitUnaryServerInterceptor ==
    Intercept("GitUnary", gitErrToGRPC(err, heap))

\* func ErrorCodeGitStreamServerInterceptor() grpc.StreamServerInterceptor
ErrorCodeGitStreamServerInterceptor ==
    Intercept("GitStream", gitErrToGRPC(err, heap))

\* func ErrorCodeK8sUnaryServerInterceptor() grpc.UnaryServerInterceptor
ErrorCodeK8sUnaryServerInterceptor ==
    Intercept("K8sUnary", kubeErrToGRPC(err, heap))

\* func ErrorCodeK8sStreamServerInterceptor() grpc.StreamServerInterceptor
ErrorCodeK8sStreamServerInterceptor ==
    Intercept("K8sStream", kubeErrToGRPC(err, heap))

IsGit == icpt \in {"GitUnary", "GitStream"}
IsK8s == icpt \in {"K8sUnary", "K8sStream"}

\* The returned error is classified again by an interceptor of the same
\* domain (the interceptor installed a second time in the chain).
ReclassifyGit ==
    /\ pc = "returned"
    /\ IsGit
    /\ ret2' = gitErrToGRPC(ret, heap)
    /\ heap' = heap + 1
    /\ pc' = "again"
    /\ UNCHANGED <<err, icpt, ret>>
    /\ UNCHANGED unwrapVars
    /\ UNCHANGED callVars

ReclassifyK8s ==
    /\ pc = "returned"
    /\ IsK8s
    /\ ret2' = kubeErrToGRPC(ret, heap)
    /\ heap' = heap + 1
    /\ pc' = "again"
    /\ UNCHANGED <<err, icpt, ret>>
    /\ UNCHANGED unwrapVars
    /\ UNCHANGED callVars

Next ==
    \/ ErrorCodeGitUnaryServerInterceptor
    \/ ErrorCodeGitStreamServerInterceptor
    \/ ErrorCodeK8sUnaryServerInterceptor
    \/ ErrorCodeK8sStreamServerInterceptor
    \/ ReclassifyGit
    \/ ReclassifyK8s

Spec == Init /\ [][Next]_vars

----------------------------------------------------------------------------
(***************************************************************************)
(* UnwrapGRPCStatus one recursion level at a time.                         *)
(***************************************************************************)
\* errors.Unwrap handing back the error it was given
errorsUnwrap_Self(e) == e

\* errors.Unwrap(err): the cause of the outermost link, nil when there is
\* none
errorsUnwrap(e) == IF e = <<>> THEN <<>> ELSE Tail(e)

\* a caller enters UnwrapGRPCStatus(err)
UnwrapGRPCStatusCall ==
    /\ pc = "handler"
    /\ pc' = "unwrap"
    /\ cur' = err
    /\ UNCHANGED <<err, icpt, ret, ret2, heap, unwrapped>>
    /\ UNCHANGED callVars

\* one level that answers only when no deeper link has a GRPCStatus()
\* method
UnwrapGRPCStatusStep_Deepest ==
    /\ pc = "unwrap"
    /\ IF /\ cur # <<>> /\ HasGRPCStatus(Head(cur))
          /\ \A j \in 2..Len(cur) : ~HasGRPCStatus(cur[j])
       THEN unwrapped' = Head(cur).st /\ pc' = "unwrapped" /\ cur' = cur
       ELSE IF errorsUnwrap(cur) = <<>>
       THEN unwrapped' = NilStatus /\ pc' = "unwrapped" /\ cur' = cur
       ELSE cur' = errorsUnwrap(cur) /\ UNCHANGED <<pc, unwrapped>>
    /\ UNCHANGED <<err, icpt, ret, ret2, heap>>
    /\ UNCHANGED callVars

\* one level that gives up below the direct cause of the error
UnwrapGRPCStatusStep_OneLevel ==
    /\ pc = "unwrap"
    /\ IF cur # <<>> /\ HasGRPCStatus(Head(cur))
       THEN unwrapped' = Head(cur).st /\ pc' = "unwrapped" /\ cur' = cur
       ELSE IF errorsUnwrap(cur) = <<>> \/ Len(err) - Len(cur) >= 1
       THEN unwrapped' = NilStatus /\ pc' = "unwrapped" /\ cur' = cur
       ELSE cur' = errorsUnwrap(cur) /\ UNCHANGED <<pc, unwrapped>>
    /\ UNCHANGED <<err, icpt, ret, ret2, heap>>
    /\ UNCHANGED callVars

\* one level of func UnwrapGRPCStatus: answer with the link's status when
\* it has a GRPCStatus() method, with nil when it has no cause, and recurse
\* on the cause otherwise
UnwrapGRPCStatusStep ==
    /\ pc = "unwrap"
    /\ IF cur # <<>> /\ HasGRPCStatus(Head(cur))
       THEN unwrapped' = Head(cur).st /\ pc' = "unwrapped" /\ cur' = cur
       ELSE IF errorsUnwrap(cur) = <<>>
       THEN unwrapped' = NilStatus /\ pc' = "unwrapped" /\ cur' = cur
       ELSE cur' = errorsUnwrap(cur) /\ UNCHANGED <<pc, unwrapped>>
    /\ UNCHANGED <<err, icpt, ret, ret2, heap>>
    /\ UNCHANGED callVars

NextUnwrap ==
    \/ UnwrapGRPCStatusCall
    \/ UnwrapGRPCStatusStep

\* a call of a Go function runs until it returns
SpecUnwrap == Init /\ [][NextUnwrap]_vars /\ WF_vars(UnwrapGRPCStatusStep)

\* The three exported behaviours on the same handler error: a caller either
\* sends it through an interceptor or hands it to UnwrapGRPCStatus.
NextClassify ==
    \/ Next
    \/ NextUnwrap

SpecClassify == Init /\ [][NextClassify]_vars

----------------------------------------------------------------------------
(***************************************************************************)
(* The interceptors step by step, for concurrent calls.                    *)
(***************************************************************************)
InitCalls ==
    /\ err = <<>>
    /\ pc = "calls"
    /\ icpt = "none"
    /\ ret = <<>>
    /\ ret2 = <<>>
    /\ heap = 1
    /\ cur = <<>>
    /\ unwrapped = NilStatus
    /\ calls = [c \in CallIds |-> IdleCall]
    /\ wire = [i \in StreamIds |-> <<>>]

\* the framework calls the interceptor of kind k for call c, and the
\* interceptor invokes the wrapped handler
InterceptorInvokes(c, k) ==
    /\ calls[c].pc = "idle"
    /\ calls' = [calls EXCEPT ![c] =
                    [@ EXCEPT !.pc = "handler", !.kind = k,
                              !.hargs = HandlerArgs(InterceptorArgs(c, k)),
                              !.invoked = @ + 1]]
    /\ UNCHANGED wire
    /\ UNCHANGED <<classVars, unwrapVars>>

\* the handler of a streaming call sends its next message on the stream it
\* was given
HandlerSends(c) ==
    /\ calls[c].pc = "handler"
    /\ ~IsUnary(calls[c].kind)
    /\ calls[c].nsent < MaxMsgs
    /\ calls' = [calls EXCEPT ![c].nsent = @ + 1]
    /\ wire' = [wire EXCEPT ![calls[c].hargs[4]] =
                    Append(@, calls[c].nsent + 1)]
    /\ UNCHANGED <<classVars, unwrapVars>>

\* the handler returns: a response and an error (unary), an error (stream)
HandlerReturns(c, e) ==
    /\ calls[c].pc = "handler"
    /\ calls' = [calls EXCEPT ![c] =
                    [@ EXCEPT !.pc = "returned", !.hErr = e,
                              !.hResp = IF IsUnary(calls[c].kind)
                                        THEN "resp" ELSE "nil"]]
    /\ UNCHANGED wire
    /\ UNCHANGED <<classVars, unwrapVars>>

\* an interceptor that classifies the error of whichever call returned
\* first instead of its own
ClassifyArg_Shared(c) ==
    LET returned == {d \in CallIds : calls[d].pc \in {"returned", "done"}}
    IN  calls[CHOOSE d \in returned : \A d2 \in returned : d <= d2].hErr

\* the error the interceptor passes to the classifier: the err its own
\* handler returned
ClassifyArg(c) == calls[c].hErr

\* an interceptor that drops the response when the handler failed
ReturnedResp_NilOnError(c) ==
    IF calls[c].hErr # <<>> THEN "nil" ELSE calls[c].hResp

\* the response the unary interceptor returns: resp as the handler gave it
ReturnedResp(c) == calls[c].hResp

\* an interceptor that returns only when no handler of any call is running
InterceptorReturns_WaitsForHandlers(c) ==
    /\ calls[c].pc = "returned"
    /\ \A d \in CallIds : calls[d].pc # "handler"
    /\ calls' = [calls EXCEPT ![c] =
                    [@ EXCEPT !.pc = "done",
                              !.classified = @ + 1,
                              !.retErr = Classifier(calls[c].kind,
                                                    ClassifyArg(c), c),
                              !.retResp = ReturnedResp(c)]]
    /\ UNCHANGED wire
    /\ UNCHANGED <<classVars, unwrapVars>>

\* the interceptor classifies the handler's error and returns
InterceptorReturns(c) ==
    /\ calls[c].pc = "returned"
    /\ calls' = [calls EXCEPT ![c] =
                    [@ EXCEPT !.pc = "done",
                              !.classified = @ + 1,
                              !.retErr = Classifier(calls[c].kind,
                                                    ClassifyArg(c), c),
                              !.retResp = ReturnedResp(c)]]
    /\ UNCHANGED wire
    /\ UNCHANGED <<classVars, unwrapVars>>

NextCalls ==
    \E c \in CallIds :
        \/ \E k \in Kinds : InterceptorInvokes(c, k)
        \/ HandlerSends(c)
        \/ \E e \in CallErrors : HandlerReturns(c, e)
        \/ InterceptorReturns(c)

SpecCalls == InitCalls /\ [][NextCalls]_vars

\* Whether a call gets through does not depend on which error its handler
\* returns: here the handlers return nil or one error that a rule rewraps.
FairCallErrors == {e \in CallErrors : e = <<>> \/ IsForbidden(e)}

NextCallsFair ==
    \E c \in CallIds :
        \/ \E k \in Kinds : InterceptorInvokes(c, k)
        \/ HandlerSends(c)
        \/ \E e \in FairCallErrors : HandlerReturns(c, e)
        \/ InterceptorReturns(c)

\* The code of an interceptor after the handler's return is straight-line Go
\* on the call's goroutine, which the scheduler keeps running.  Nothing is
\* assumed of the handlers: a handler may run for ever.
SpecCallsFair ==
    /\ InitCalls
    /\ [][NextCallsFair]_vars
    /\ \A c \in CallIds : WF_vars(InterceptorReturns(c))

----------------------------------------------------------------------------
(***************************************************************************)
(* Properties.                                                             *)
(***************************************************************************)
K8sReturned == pc # "handler" /\ IsK8s
GitReturned == pc # "handler" /\ IsGit

\* the 13 predicates in the order of the rule list, and the code the rule
\* list gives each
Predicate(i, e) ==
    CASE i = 1 -> IsNotFound(e)
      [] i = 2 -> IsAlreadyExists(e)
      [] i = 3 -> IsInvalid(e)
      [] i = 4 -> IsMethodNotSupported(e)
      [] i = 5 -> IsServiceUnavailable(e)
      [] i = 6 -> IsBadRequest(e)
      [] i = 7 -> IsUnauthorized(e)
      [] i = 8 -> IsForbidden(e)
      [] i = 9 -> IsTimeout(e)
      [] i = 10 -> IsServerTimeout(e)
      [] i = 11 -> IsConflict(e)
      [] i = 12 -> IsTooManyRequests(e)
      [] i = 13 -> IsInternalError(e)

RuleCodes ==
    <<"NotFound", "AlreadyExists", "InvalidArgument", "Unimplemented",
      "Unavailable", "FailedPrecondition", "Unauthenticated",
      "PermissionDenied", "DeadlineExceeded", "Unavailable", "Aborted",
      "ResourceExhausted", "Internal">>

Matching(e) == {i \in DOMAIN RuleCodes : Predicate(i, e)}

Earliest(S) == CHOOSE i \in S : \A j \in S : i <= j

\* r is a status error with exactly this code and message
CarriesStatus(r, code, msg) ==
    /\ r # <<>>
    /\ Head(r).kind = "grpc"
    /\ Head(r).st = Status(code, msg)

\* r is a value built by status.Error during the call: a single link with
\* no cause, which is none of the links of the input e
FreshStatusError(r, e) ==
    /\ Len(r) = 1
    /\ r[1].kind = "grpc"
    /\ \A i \in DOMAIN e : r[1].addr # e[i].addr

\* C1: when exactly one of the 13 predicates holds of the handler's error,
\* the k8s interceptors return an error carrying the code the rule list
\* gives that predicate.
C1_FixedCodes ==
    (K8sReturned /\ Cardinality(Matching(err)) = 1)
        => (ret # <<>> /\ Head(ret).kind = "grpc"
            /\ Head(ret).st.present
            /\ Head(ret).st.code = RuleCodes[Earliest(Matching(err))])

\* bad-request is the only predicate that holds
C1_Witness ==
    /\ K8sReturned
    /\ Matching(err) = {6}
    /\ Head(ret).st.code = "FailedPrecondition"

\* C2: when two or more predicates hold at once, the result carries the code
\* of the earliest rule of the order and the input's message; no later rule
\* changes it.
C2_EarliestWins ==
    (K8sReturned /\ Cardinality(Matching(err)) >= 2)
        => CarriesStatus(ret, RuleCodes[Earliest(Matching(err))],
                         ErrorText(err))

\* a not-found reason together with a too-many-requests HTTP code
C2_Witness ==
    /\ K8sReturned
    /\ Matching(err) = {1, 12}
    /\ CarriesStatus(ret, "NotFound", ErrorText(err))

\* C3: whenever a predicate matches, the result is a freshly built status
\* error (one link, no cause, not a link of the input) whose message is the
\* input's whole message text and whose code is the matched rule's.
C3_FreshRewrap ==
    (K8sReturned /\ Matching(err) # {})
        => /\ FreshStatusError(ret, err)
           /\ CarriesStatus(ret, RuleCodes[Earliest(Matching(err))],
                            ErrorText(err))

\* a wrapped already-exists error: the message keeps the wrapper's text
C3_Witness ==
    /\ K8sReturned
    /\ Len(err) = 2
    /\ Matching(err) = {2}
    /\ FreshStatusError(ret, err)
    /\ Head(ret).st.msg = Ctx \o Boom

\* C4 (as claimed): in the default branch, an embedded status (c, m) found
\* by UnwrapGRPCStatus is re-emitted as a new error carrying exactly (c, m),
\* one status layer, no wrapping text.
C4_DefaultReemits ==
    (K8sReturned /\ Matching(err) = {} /\ UnwrapGRPCStatus(err).present)
        => /\ FreshStatusError(ret, err)
           /\ CarriesStatus(ret, UnwrapGRPCStatus(err).code,
                            UnwrapGRPCStatus(err).msg)

\* some link of e has a GRPCStatus() method that yields a status
ExposesStatus(e) ==
    \E i \in DOMAIN e : HasGRPCStatus(e[i]) /\ e[i].st.present

\* C5: an error on which no predicate holds and in whose chain no link
\* exposes a status is returned by the k8s interceptors as it is: the same
\* value (message, wrapping, nil-ness).
C5_PassThrough ==
    (K8sReturned /\ Matching(err) = {} /\ ~ExposesStatus(err))
        => ret = err

\* an annotated plain error passes through
C5_Witness ==
    /\ K8sReturned
    /\ Len(err) = 2
    /\ Matching(err) = {}
    /\ ~ExposesStatus(err)
    /\ ErrorText(ret) = Ctx \o Boom

\* the message gitErrToGRPC compares: the embedded status's, else the
\* error's own
EffectiveMessage(e) ==
    IF UnwrapGRPCStatus(e).present THEN UnwrapGRPCStatus(e).msg
    ELSE ErrorText(e)

\* C6: for a non-nil error the git interceptors return a new NotFound status
\* error with the canonical message if and only if the effective message is
\* exactly the canonical "repository not found" text.
C6_GitRecognizes ==
    (GitReturned /\ err # <<>>)
        => ((FreshStatusError(ret, err)
             /\ CarriesStatus(ret, "NotFound", ErrRepositoryNotFound))
            <=> EffectiveMessage(err) = ErrRepositoryNotFound)

\* a wrapped status error with code Unknown and the canonical message
C6_Witness ==
    /\ GitReturned
    /\ Len(err) = 2
    /\ err[1].kind = "plain"
    /\ err[2].st = Status("Unknown", ErrRepositoryNotFound)
    /\ CarriesStatus(ret, "NotFound", ErrRepositoryNotFound)

\* C7: a non-nil error whose effective message is not exactly the canonical
\* text is returned by the git interceptors as it is, embedded status and
\* wrapping included.
C7_GitPassThrough ==
    (GitReturned /\ err # <<>>
        /\ EffectiveMessage(err) # ErrRepositoryNotFound)
        => ret = err

\* the message merely contains the canonical text
C7_Witness ==
    /\ GitReturned
    /\ Len(err) = 2
    /\ ~ExposesStatus(err)
    /\ ErrorText(err) = Ctx \o ErrRepositoryNotFound
    /\ ret = err

\* two context annotations (wrappers with no GRPCStatus() method, each
\* adding its text) around an innermost link
TwiceAnnotated(e) ==
    /\ Len(e) = 3
    /\ e[1].kind = "plain" /\ e[1].text # <<>>
    /\ e[2].kind = "plain" /\ e[2].text # <<>>

\* the innermost link is a "repository not found" error: its message, or
\* the message of the status it exposes, is the canonical text
InnermostNotFound(e) ==
    \/ /\ e[Len(e)].kind = "plain"
       /\ e[Len(e)].text = ErrRepositoryNotFound
    \/ /\ HasGRPCStatus(e[Len(e)])
       /\ e[Len(e)].st.present
       /\ e[Len(e)].st.msg = ErrRepositoryNotFound

\* C8 (as claimed): a "repository not found" error wrapped twice in context
\* annotations gets code NotFound and the canonical message.
C8_WrappedTwice ==
    (GitReturned /\ TwiceAnnotated(err) /\ InnermostNotFound(err))
        => CarriesStatus(ret, "NotFound", ErrRepositoryNotFound)

\* C8 (amended): when the innermost link exposes a status whose message is
\* the canonical text, two context annotations around it do not prevent the
\* classification to NotFound with the canonical message.
C8_WrappedTwiceStatus ==
    (GitReturned /\ TwiceAnnotated(err)
        /\ HasGRPCStatus(err[3]) /\ err[3].st.present
        /\ err[3].st.msg = ErrRepositoryNotFound)
        => /\ FreshStatusError(ret, err)
           /\ CarriesStatus(ret, "NotFound", ErrRepositoryNotFound)

C8_Witness ==
    /\ GitReturned
    /\ TwiceAnnotated(err)
    /\ err[3].st = Status("Unknown", ErrRepositoryNotFound)
    /\ ErrorText(err) # ErrRepositoryNotFound
    /\ CarriesStatus(ret, "NotFound", ErrRepositoryNotFound)

\* C9: a nil error stays nil through each of the four interceptors, and
\* through a second classification.
C9_NilInNilOut ==
    /\ (pc # "handler" /\ err = <<>>) => ret = <<>>
    /\ (pc = "again" /\ ret = <<>>) => ret2 = <<>>

C9_Witness ==
    /\ pc = "returned"
    /\ icpt = "K8sStream"
    /\ err = <<>>
    /\ ret = <<>>

\* the (code, message) pair a caller reads from an error: the status of an
\* error that exposes one, else code Unknown with the error's message
StatusPair(e) ==
    IF e = <<>> THEN [nil |-> TRUE, code |-> "OK", msg |-> <<>>]
    ELSE IF HasGRPCStatus(Head(e)) /\ Head(e).st.present
         THEN [nil |-> FALSE, code |-> Head(e).st.code, msg |-> Head(e).st.msg]
    ELSE [nil |-> FALSE, code |-> "Unknown", msg |-> ErrorText(e)]

\* C10: classifying the classified error again with the same classifier
\* gives the same (code, message) pair; the result of a matched kube rule
\* matches no rule itself and is re-emitted with its code and message.
C10_Idempotent ==
    /\ pc = "again" => StatusPair(ret2) = StatusPair(ret)
    /\ (pc = "again" /\ IsK8s /\ Matching(err) # {})
        => /\ Matching(ret) = {}
           /\ CarriesStatus(ret2, Head(ret).st.code, Head(ret).st.msg)

C10_Witness ==
    /\ pc = "again"
    /\ IsK8s
    /\ Matching(err) = {8}
    /\ Len(err) = 2
    /\ CarriesStatus(ret2, "PermissionDenied", Ctx \o Boom)

\* the outermost link of e that has a GRPCStatus() method
FirstWithStatus(e) ==
    CHOOSE i \in DOMAIN e :
        HasGRPCStatus(e[i]) /\ \A j \in 1..(i - 1) : ~HasGRPCStatus(e[j])

\* C11: when several links have a GRPCStatus() method, UnwrapGRPCStatus
\* returns what the outermost of them yields and the traversal stops at that
\* link; the one-pass operator the classifiers use agrees.
C11_OutermostStatus ==
    (pc = "unwrapped" /\ \E i \in DOMAIN err : HasGRPCStatus(err[i]))
        => /\ unwrapped = err[FirstWithStatus(err)].st
           /\ cur = SubSeq(err, FirstWithStatus(err), Len(err))
           /\ unwrapped = UnwrapGRPCStatus(err)

\* a wrapper with a status of its own around a status error with another
\* status
C11_Witness ==
    /\ pc = "unwrapped"
    /\ Len(err) = 2
    /\ err[1].st = Status("Unknown", ErrRepositoryNotFound)
    /\ err[2].kind = "grpc"
    /\ err[2].st = Status("Internal", Boom)
    /\ unwrapped = Status("Unknown", ErrRepositoryNotFound)

\* N wrappers without a GRPCStatus() method around an innermost link that
\* exposes a status
OnlyInnermostStatus(e) ==
    /\ e # <<>>
    /\ \A i \in 1..(Len(e) - 1) : ~HasGRPCStatus(e[i])
    /\ HasGRPCStatus(e[Len(e)])
    /\ e[Len(e)].st.present

\* C12: for every depth N from 0 to MaxWrap, with the status at the
\* innermost link only, UnwrapGRPCStatus reaches that link and returns its
\* status.
C12_Depth ==
    (pc = "unwrapped" /\ OnlyInnermostStatus(err))
        => /\ unwrapped = err[Len(err)].st
           /\ Len(cur) = 1

C12_Witness ==
    /\ pc = "unwrapped"
    /\ Len(err) = 3
    /\ OnlyInnermostStatus(err)
    /\ unwrapped = Status("DataLoss", Boom)

\* C17: every traversal by UnwrapGRPCStatus ends; it ends at a link with a
\* GRPCStatus() method or at a link with no cause (or at once on nil), and
\* it returns nil for nil and for a chain in which no link exposes a status.
C17_Terminates ==
    /\ [](pc = "unwrapped" =>
            /\ (cur = <<>> /\ err = <<>>)
                  \/ (cur # <<>> /\ HasGRPCStatus(Head(cur)))
                  \/ Len(cur) = 1
            /\ ~ExposesStatus(err) => unwrapped = NilStatus)
    /\ (pc = "unwrap") ~> (pc = "unwrapped")

\* three links, none exposing a status: the traversal ended at the last one
C17_Witness ==
    /\ pc = "unwrapped"
    /\ Len(err) = 3
    /\ ~ExposesStatus(err)
    /\ Len(cur) = 1
    /\ unwrapped = NilStatus

\* the gRPC codes the comment of kubeErrToGRPC lists as unmapped
UnmappedCodes == {"Canceled", "Unknown", "OutOfRange", "DataLoss"}

\* C13 (as claimed): no error that kubeErrToGRPC builds, in a rule or in the
\* default branch, has the code Canceled, Unknown, OutOfRange or DataLoss.
C13_NeverUnmapped ==
    (K8sReturned /\ FreshStatusError(ret, err))
        => Head(ret).st.code \notin UnmappedCodes

\* C13 (amended): an error built by kubeErrToGRPC has one of these four
\* codes only when no rule matched and the default branch copied the code
\* from the status embedded in the input.
C13_UnmappedOnlyCopied ==
    (K8sReturned /\ FreshStatusError(ret, err)
        /\ Head(ret).st.code \in UnmappedCodes)
        => /\ Matching(err) = {}
           /\ UnwrapGRPCStatus(err).present
           /\ UnwrapGRPCStatus(err).code = Head(ret).st.code

\* the default branch re-emits a wrapped status error with code Canceled
C13_Witness ==
    /\ K8sReturned
    /\ Len(err) = 2
    /\ err[2].st = Status("Canceled", Boom)
    /\ FreshStatusError(ret, err)
    /\ Head(ret).st.code = "Canceled"

----------------------------------------------------------------------------
\* the messages a stream handler has sent so far, as it sent them
Sent(c) == [i \in 1..calls[c].nsent |-> i]

Started(c) == calls[c].pc # "idle"
Done(c) == calls[c].pc = "done"

\* C14: a unary interceptor invokes the handler exactly once, with the
\* context and request it was given; it returns the handler's response as it
\* is, also beside an error, and the domain classifier applied once to the
\* handler's error.
C14_Unary ==
    \A c \in CallIds :
        (Started(c) /\ IsUnary(calls[c].kind))
            => /\ calls[c].invoked = 1
               /\ calls[c].hargs = <<"ctx", c, "req", c>>
               /\ calls[c].classified = IF Done(c) THEN 1 ELSE 0
               /\ Done(c) =>
                    /\ calls[c].retResp = calls[c].hResp
                    /\ calls[c].retErr =
                         IF calls[c].kind = "GitUnary"
                         THEN gitErrToGRPC(calls[c].hErr, c)
                         ELSE kubeErrToGRPC(calls[c].hErr, c)

\* a failed unary call keeps the handler's response
C14_Witness ==
    \E c \in CallIds :
        /\ Done(c)
        /\ calls[c].kind = "K8sUnary"
        /\ calls[c].hErr # <<>>
        /\ calls[c].retResp = "resp"
        /\ CarriesStatus(calls[c].retErr, "PermissionDenied", Boom)

\* C15: a streaming interceptor classifies once, and only when the handler
\* has returned; the messages on the call's stream are at every moment the
\* ones the handler sent, unaltered, also after the interceptor returned; a
\* terminal forbidden error becomes PermissionDenied.
C15_Stream ==
    \A c \in CallIds :
        (Started(c) /\ ~IsUnary(calls[c].kind))
            => /\ calls[c].invoked = 1
               /\ calls[c].classified = IF Done(c) THEN 1 ELSE 0
               /\ wire[c] = Sent(c)
               /\ (Done(c) /\ IsForbidden(calls[c].hErr)
                    /\ calls[c].kind = "K8sStream")
                    => CarriesStatus(calls[c].retErr, "PermissionDenied",
                                     ErrorText(calls[c].hErr))

\* two messages sent, then a forbidden error
C15_Witness ==
    \E c \in CallIds :
        /\ Done(c)
        /\ calls[c].kind = "K8sStream"
        /\ wire[c] = <<1, 2>>
        /\ IsForbidden(calls[c].hErr)
        /\ CarriesStatus(calls[c].retErr, "PermissionDenied", Boom)

\* C16: under every interleaving of the calls, the error a call returns is
\* its domain's classifier applied to its own handler's error, and a step of
\* one call changes neither the record nor the stream of another call.
C16_NonInterference ==
    /\ [](\A c \in CallIds :
            Done(c) => calls[c].retErr =
                Classifier(calls[c].kind, calls[c].hErr, c))
    /\ [][\A c \in CallIds :
            calls'[c] # calls[c]
                => \A d \in CallIds \ {c} :
                     calls'[d] = calls[d] /\ wire'[d] = wire[d]]_vars

\* two concurrent calls of different kinds finished, one with a nil error
\* and one with a forbidden error
C16_Witness ==
    \E c, d \in CallIds :
        /\ c < d
        /\ Done(c) /\ Done(d)
        /\ calls[c].kind = "K8sStream" /\ calls[d].kind = "K8sUnary"
        /\ calls[c].hErr = <<>> /\ calls[c].retErr = <<>>
        /\ IsForbidden(calls[d].hErr)
        /\ CarriesStatus(calls[d].retErr, "PermissionDenied", Boom)

----------------------------------------------------------------------------
\* a control-plane condition with no dedicated rule
Unmapped(e) ==
    \/ IsGone(e)
    \/ IsResourceExpired(e)
    \/ IsUnexpectedServerError(e)
    \/ IsUnexpectedObjectError(e)

\* C18 (as claimed): an error with a condition that has no dedicated rule is
\* returned unchanged when its chain has no embedded status and is re-emitted
\* with the embedded status's code and message otherwise; no rule gives it
\* one of the mapped codes.
C18_UnmappedDefault ==
    (K8sReturned /\ Unmapped(err))
        => IF UnwrapGRPCStatus(err).present
           THEN CarriesStatus(ret, UnwrapGRPCStatus(err).code,
                              UnwrapGRPCStatus(err).msg)
           ELSE ret = err

\* C18 (amended): such an error is handled by the default branch when none
\* of the 13 predicates holds of it too: returned unchanged without an
\* embedded status, else what status.Error makes of the embedded code and
\* message (a new error, nil for OK).  When one of the 13 predicates holds
\* as well, that rule rewraps it.
C18_UnmappedUnlessRule ==
    (K8sReturned /\ Unmapped(err))
        => IF Matching(err) # {}
           THEN CarriesStatus(ret, RuleCodes[Earliest(Matching(err))],
                              ErrorText(err))
           ELSE IF ~UnwrapGRPCStatus(err).present THEN ret = err
           ELSE IF UnwrapGRPCStatus(err).code = "OK" THEN ret = <<>>
           ELSE /\ FreshStatusError(ret, err)
                /\ CarriesStatus(ret, UnwrapGRPCStatus(err).code,
                                 UnwrapGRPCStatus(err).msg)

\* a gone error on which no rule's predicate holds passes through
C18_Witness ==
    /\ K8sReturned
    /\ Len(err) = 1
    /\ err[1].reason = "Gone"
    /\ Matching(err) = {}
    /\ ret = err

C20_RuleBeforeStatus ==
    (K8sReturned /\ Matching(err) # {} /\ UnwrapGRPCStatus(err).present)
        => /\ FreshStatusError(ret, err)
           /\ CarriesStatus(ret, RuleCodes[Earliest(Matching(err))],
                            ErrorText(err))

\* a conflict error inside a wrapper that exposes an Internal status
C20_Witness ==
    /\ K8sReturned
    /\ Len(err) = 2
    /\ err[1].st = Status("Internal", Boom)
    /\ err[2].reason = "Conflict"
    /\ CarriesStatus(ret, "Aborted", Ctx \o Boom)

----------------------------------------------------------------------------
\* C21: when the embedded status of the handler's error has the canonical
\* message, whatever its code (OK, NotFound or any other), the git
\* interceptors return a new error of one link whose status is exactly
\* (NotFound, "repository not found"): neither the embedded code nor the
\* text of the wrappers is carried over.
C21_GitOverridesCode ==
    (GitReturned /\ UnwrapGRPCStatus(err).present
        /\ UnwrapGRPCStatus(err).msg = ErrRepositoryNotFound)
        => /\ FreshStatusError(ret, err)
           /\ CarriesStatus(ret, "NotFound", ErrRepositoryNotFound)
           /\ ErrorText(ret) =
                StatusErrorText(Status("NotFound", ErrRepositoryNotFound))

\* an annotated status error with code PermissionDenied and the canonical
\* message
C21_Witness ==
    /\ GitReturned
    /\ Len(err) = 2
    /\ err[1].kind = "plain"
    /\ err[1].text = Ctx
    /\ err[2].st = Status("PermissionDenied", ErrRepositoryNotFound)
    /\ CarriesStatus(ret, "NotFound", ErrRepositoryNotFound)

\* C22 (as claimed): an interceptor whose handler returned a non-nil error
\* returns a non-nil error, also when the chain embeds a status with the OK
\* code; the same holds when the returned error is classified again.
C22_NeverSuccess ==
    /\ (pc # "handler" /\ err # <<>>) => ret # <<>>
    /\ (pc = "again" /\ ret # <<>>) => ret2 # <<>>

\* the codes of the rule list
RuleCodeSet == {RuleCodes[i] : i \in DOMAIN RuleCodes}

\* a classifier given in returned out: when the code a caller reads from
\* out is outside the rule list's codes, out is the input itself or its code
\* is the code of the status embedded in the input (nil reads as OK)
VocabularyKept(in, out) ==
    StatusPair(out).code \notin RuleCodeSet
        => \/ out = in
           \/ /\ UnwrapGRPCStatus(in).present
              /\ UnwrapGRPCStatus(in).code = StatusPair(out).code

\* C23: an error built by a matched rule of kubeErrToGRPC carries one of the
\* 12 codes of the rule list; an error built by gitErrToGRPC carries
\* NotFound; a code outside the list appears in an output only when the
\* input is returned as it is or the code is copied from the status embedded
\* in the input.
C23_ClosedVocabulary ==
    /\ Cardinality(RuleCodeSet) = 12
    /\ (K8sReturned /\ Matching(err) # {})
        => /\ FreshStatusError(ret, err)
           /\ Head(ret).st.code \in RuleCodeSet
    /\ (GitReturned /\ ret # err)
        => /\ FreshStatusError(ret, err)
           /\ Head(ret).st.code = "NotFound"
    /\ pc # "handler" => VocabularyKept(err, ret)
    /\ pc = "again" => VocabularyKept(ret, ret2)

\* a conflict error becomes Aborted
C23_Witness ==
    /\ K8sReturned
    /\ Matching(err) = {11}
    /\ CarriesStatus(ret, "Aborted", ErrorText(err))

----------------------------------------------------------------------------
\* C24: no call stays for ever between its handler's return and its
\* interceptor's return, whatever the other calls do; an interceptor returns
\* only from the state in which its handler has returned; and the only step
\* of a call between the two returns is the classification, which ends in
\* the interceptor's return and sends nothing.  Together: once the handler
\* has returned, the interceptor eventually returns the classified result.
C24_NoBlocking ==
    /\ \A c \in CallIds : []<>(calls[c].pc # "returned")
    /\ [][\A c \in CallIds :
            (Done(c)' /\ ~Done(c)) => calls[c].pc = "returned"]_vars
    /\ [][\A c \in CallIds :
            (calls[c].pc = "returned" /\ calls'[c] # calls[c])
                => /\ calls'[c] =
                        [calls[c] EXCEPT
                            !.pc = "done",
                            !.classified = 1,
                            !.retErr = Classifier(calls[c].kind,
                                                  calls[c].hErr, c),
                            !.retResp = calls[c].hResp]
                   /\ wire' = wire]_vars

\* a call has finished while the handler of another call is still running
C24_Witness ==
    \E c, d \in CallIds :
        /\ Done(c)
        /\ calls[c].kind = "K8sStream"
        /\ calls[c].classified = 1
        /\ calls[d].pc = "handler"
        /\ calls[d].nsent = 1

----------------------------------------------------------------------------
\* C25: no step of UnwrapGRPCStatus, gitErrToGRPC or kubeErrToGRPC changes
\* the error it was given: the handler's error, links, texts, causes and
\* statuses, is the same after every step, also when the classifier returns
\* a new error; the error given to a second classification is the same after
\* it; and the traversal only moves along the links of the unchanged chain.
C25_InputUnchanged ==
    [][/\ err' = err
       /\ pc = "returned" => ret' = ret
       /\ pc' \in {"unwrap", "unwrapped"} =>
            cur' = SubSeq(err, Len(err) - Len(cur') + 1, Len(err))]_vars

\* a new error was returned in place of a wrapped input, which is still the
\* chain of two links the handler returned
C25_Witness ==
    /\ K8sReturned
    /\ Len(err) = 2
    /\ err[1].text = Ctx
    /\ err[2].kind = "api"
    /\ FreshStatusError(ret, err)
    /\ ret # err

\* the outermost link with a GRPCStatus() method yields a nil status
NilStatusFirst(e) ==
    /\ \E i \in DOMAIN e : HasGRPCStatus(e[i])
    /\ ~e[FirstWithStatus(e)].st.present

\* C26: when the outermost link with a GRPCStatus() method yields a nil
\* status, UnwrapGRPCStatus returns nil and stops at that link, also when a
\* deeper link carries a status; kubeErrToGRPC's default branch then returns
\* the error as it is, and gitErrToGRPC compares the error's own message
\* text.
C26_NilStatusEndsSearch ==
    NilStatusFirst(err) =>
        /\ UnwrapGRPCStatus(err) = NilStatus
        /\ pc = "unwrapped" =>
              /\ unwrapped = NilStatus
              /\ cur = SubSeq(err, FirstWithStatus(err), Len(err))
        /\ (K8sReturned /\ Matching(err) = {}) => ret = err
        /\ GitReturned =>
              IF ErrorText(err) = ErrRepositoryNotFound
              THEN /\ FreshStatusError(ret, err)
                   /\ CarriesStatus(ret, "NotFound", ErrRepositoryNotFound)
              ELSE ret = err

\* a wrapper whose GRPCStatus() yields nil around a status error: the
\* traversal stopped at the wrapper
C26_Witness ==
    /\ pc = "unwrapped"
    /\ Len(err) = 2
    /\ err[1].kind = "custom"
    /\ ~err[1].st.present
    /\ err[2].st = Status("Unknown", ErrRepositoryNotFound)
    /\ Len(cur) = 2
    /\ unwrapped = NilStatus

====
